---- MODULE Spec2Model ----
(***************************************************************************)
(* A model of rust-audio-visualiser (src/main.rs): a main thread that sets *)
(* up the terminal and the audio sink, spawns the loudness extractor       *)
(* thread, and then runs the render loop; the two threads share the Level  *)
(* History (audio_levels) behind a std::sync::Mutex.                       *)
(*                                                                         *)
(* Representation choices.                                                 *)
(*  - f32 values are fixed point: amplitudes and loudness in thousandths   *)
(*    (1000 = 1.0), squared amplitudes in millionths.  An f32 is a record  *)
(*    [k, v] with k = "fin" (value v), "ninf" (-infinity) or "nan".        *)
(*  - 20 * log10(rms) is computed to whole decibels, rounded down.         *)
(*  - The Sample Stream (Arc<Vec<i16>>) is the record [len, period]: the   *)
(*    vector of len samples whose i-th element (from 0) is                 *)
(*    period[(i % Len(period)) + 1].                                       *)
(***************************************************************************)
EXTENDS Integers, Sequences, FiniteSets, TLC

(***************************************************************************)
(* Program constants.                                                      *)
(***************************************************************************)
WINDOW_SIZE == 100

I16_MAX == 32767

\* chunk_size = sample_rate / 20
ChunksPerSecond == 20

\* 1.0 in fixed point
One == 1000

(***************************************************************************)
(* Bounds of the model.                                                    *)
(***************************************************************************)
\* The most input events the terminal holds unread.
MaxPending == 3

\* How many chunks more than WINDOW_SIZE the long stream has.
ExtraChunks == 3

(***************************************************************************)
(* f32 in fixed point.                                                     *)
(***************************************************************************)
Fin(v) == [k |-> "fin", v |-> v]

NaN == [k |-> "nan", v |-> 0]

NegInf == [k |-> "ninf", v |-> 0]

Min(a, b) == IF a <= b THEN a ELSE b

Max(a, b) == IF a >= b THEN a ELSE b

\* Integer division rounding toward zero.
TruncDiv(a, b) == IF a >= 0 THEN a \div b ELSE 0 - ((0 - a) \div b)

(***************************************************************************)
(* The Sample Stream and its chunks: samples.chunks(chunk_size).           *)
(***************************************************************************)
\* A faulty variant: 100 ms chunks.
ChunkSize_Tenth(rate) == rate \div 10

ChunkSize(rate) == rate \div ChunksPerSecond

\* The number of chunks chunks(cs) yields for a slice of n samples (cs > 0).
NumChunks(n, cs) == (n + cs - 1) \div cs

\* A faulty variant: the last chunk is not cut short at the end of the slice.
ChunkAt_Whole(n, cs, pos) == [start |-> pos, len |-> cs]

\* The chunk starting at sample offset pos: its first index and its length.
ChunkAt(n, cs, pos) == [start |-> pos, len |-> Min(cs, n - pos)]

\* The number of indices i in 0..(x-1) with i % p = j.
CountBelow(x, p, j) == (x + p - 1 - j) \div p

\* How many samples of the chunk c sit at position j (from 0) of the period.
CountIn(c, p, j) == CountBelow(c.start + c.len, p, j) - CountBelow(c.start, p, j)

(***************************************************************************)
(* The loudness of a chunk: rms, db, normalized_db.  A `let x = e` of the   *)
(* code is written CHOOSE r \in { F(x) : x \in { e } } : TRUE, which        *)
(* evaluates e once and is F(e).                                           *)
(***************************************************************************)
\* A faulty variant: full scale is taken to be 32768.
Normalize_Pow2(s) == TruncDiv(s * One, I16_MAX + 1)

\* s as f32 / i16::MAX as f32
Normalize(s) == TruncDiv(s * One, I16_MAX)

\* .powi(2), in millionths
Square(x) == x * x

RECURSIVE SumSquares(_, _, _)
\* chunk.iter().map(|&s| (s / MAX).powi(2)).sum(), grouped by period position
SumSquares(s, c, j) ==
    IF j >= Len(s.period) THEN 0
    ELSE CountIn(c, Len(s.period), j) * Square(Normalize(s.period[j + 1]))
         + SumSquares(s, c, j + 1)

RECURSIVE SqrtBetween(_, _, _)
\* The largest r in lo..hi with r * r <= x, by bisection (lo * lo <= x).
SqrtBetween(x, lo, hi) ==
    IF lo = hi THEN lo
    ELSE CHOOSE r \in { IF mid * mid <= x THEN SqrtBetween(x, mid, hi)
                        ELSE SqrtBetween(x, lo, mid - 1) :
                        mid \in { (lo + hi + 1) \div 2 } } : TRUE

\* .sqrt(), of millionths to thousandths
Sqrt(x) == SqrtBetween(x, 0, 2 * One)

\* (sum / chunk.len() as f32).sqrt(): 0.0 / 0.0 is NaN
Rms(s, c) ==
    IF c.len = 0 THEN NaN
    ELSE CHOOSE r \in { Fin(Sqrt(mean)) : mean \in { SumSquares(s, c, 0) \div c.len } } : TRUE

\* 10^(j/20) for j = 0..19, in thousandths
DecibelSteps ==
    << 1000, 1122, 1259, 1413, 1585, 1778, 1995, 2239, 2512, 2818,
       3162, 3548, 3981, 4467, 5012, 5623, 6310, 7079, 7943, 8913 >>

\* The decade of r >= 1: the d with 10^d <= r < 10^(d+1), up to 3.
Decade(r) == IF r >= 1000 THEN 3 ELSE IF r >= 100 THEN 2 ELSE IF r >= 10 THEN 1 ELSE 0

Pow10(d) == IF d = 0 THEN 1 ELSE IF d = 1 THEN 10 ELSE IF d = 2 THEN 100 ELSE 1000

\* floor(20 * log10(r / 1000)) for r >= 1 thousandths
WholeDecibels(r) ==
    LET d == Decade(r)
        m == r * Pow10(3 - d)
        j == Cardinality({i \in 1..20 : DecibelSteps[i] <= m}) - 1
    IN  (20 * d + j) - 60

\* 20.0 * rms.log10(): log10(0.0) is -infinity, log10(NaN) is NaN
Decibels(rms) ==
    IF rms.k = "nan" THEN NaN
    ELSE IF rms.v = 0 THEN NegInf
    ELSE Fin(WholeDecibels(rms.v))

\* A faulty variant: no clamp.
Clamp01_Unclamped(x) == x

\* f32::clamp(0.0, 1.0): NaN stays NaN
Clamp01(x) ==
    IF x.k = "nan" THEN NaN
    ELSE IF x.k = "ninf" THEN Fin(0)
    ELSE Fin(Max(0, Min(One, x.v)))

\* ((db + 60.0) / 60.0).clamp(0.0, 1.0)
NormalizedDb(db) ==
    Clamp01(IF db.k = "fin" THEN Fin(TruncDiv((db.v + 60) * One, 60)) ELSE db)

\* let rms = ..; let db = ..; let normalized_db = ..
Loudness(s, c) ==
    CHOOSE normalized \in
        { NormalizedDb(db) : db \in { Decibels(rms) : rms \in { Rms(s, c) } } } : TRUE

(***************************************************************************)
(* The draw closure's data: labels and bar values.                         *)
(***************************************************************************)
Digits == << "0", "1", "2", "3", "4", "5", "6", "7", "8", "9" >>

RECURSIVE ToString10(_)
\* i.to_string(): the decimal digits of i, most significant first
ToString10(i) ==
    IF i < 10 THEN << Digits[i + 1] >>
    ELSE Append(ToString10(i \div 10), Digits[(i % 10) + 1])

\* A faulty variant: one label too few.
Labels_Short == [i \in 1..(WINDOW_SIZE - 1) |-> ToString10(i - 1)]

\* let labels: Vec<String> = (0..WINDOW_SIZE).map(|i| i.to_string()).collect()
Labels == [i \in 1..WINDOW_SIZE |-> ToString10(i - 1)]

\* (level * 100.0) as u64: the cast truncates, and NaN casts to 0
BarValue(level) == IF level.k = "nan" THEN 0 ELSE (level.v * 100) \div One

\* levels.iter().enumerate().map(|(i, &level)| (labels[i].as_str(), ...)).collect()
BarData(levels) ==
    [i \in 1..Len(levels) |-> [label |-> Labels[i], value |-> BarValue(levels[i])]]

(***************************************************************************)
(* The inputs: what Decoder::new yields for the file src/pink.mp3.         *)
(***************************************************************************)
\* 5 seconds of mono silence at 44.1 kHz
SilentInput ==
    [rate |-> 44100, channels |-> 1, samples |-> [len |-> 220500, period |-> << 0 >>]]

\* More than WINDOW_SIZE chunks of one sample each, of varying loudness
LongInput ==
    [rate |-> 20, channels |-> 1,
     samples |-> [len |-> WINDOW_SIZE + ExtraChunks,
                  period |-> << 0, 100, 328, 1000, 3277, 32767, -32768, -20000, 33 >>]]

\* Stereo, chunks of two samples, a short last chunk
ShortInput ==
    [rate |-> 40, channels |-> 2,
     samples |-> [len |-> 5, period |-> << 32767, -32768, 0, 0, 1200 >>]]

\* Shorter than one chunk
TinyInput ==
    [rate |-> 44100, channels |-> 1, samples |-> [len |-> 3, period |-> << 0, 5000, -5000 >>]]

\* No samples at all
EmptyInput ==
    [rate |-> 44100, channels |-> 2, samples |-> [len |-> 0, period |-> << 0 >>]]

\* A sample rate below 20 Hz: chunk_size is 0
SlowInput ==
    [rate |-> 19, channels |-> 1, samples |-> [len |-> 2, period |-> << 700, -700 >>]]

Inputs == { SilentInput, LongInput, ShortInput, TinyInput, EmptyInput, SlowInput }

NoSamples == [len |-> 0, period |-> << >>]

\* Input events: the key 'q', any other key, a non-key event (mouse, resize)
Events == { "key_q", "key_other", "mouse" }

(***************************************************************************)
(* The state.                                                              *)
(***************************************************************************)
VARIABLES
    file,           \* what the file src/pink.mp3 decodes to
    main_pc,        \* where the main thread is
    terminal,       \* [raw, alt]: raw mode on, alternate screen entered
    exit_status,    \* "running", "ok" (0), "err" (Err from main), "panic"
    sample_rate,    \* source.sample_rate()
    channels,       \* source.channels()
    samples,        \* the Sample Stream, NoSamples until decoded
    sink,           \* the sources queued on the Sink and not yet played out
    events,         \* the input events the terminal holds unread
    audio_levels,   \* the Level History inside the Mutex
    mutex,          \* who holds the Mutex: "none", "main", "extractor"
    poisoned,       \* a thread panicked while holding the Mutex
    bar_data,       \* the draw closure's bar_data, << >> outside the closure
    ext_pc,         \* where the extractor thread is
    ext_pos,        \* the offset at which the Chunks iterator's next chunk starts
    chunk,          \* the extractor's current chunk [start, len]
    normalized_db   \* the extractor's normalized_db for the current chunk

vars ==
    << file, main_pc, terminal, exit_status, sample_rate, channels, samples, sink, events,
       audio_levels, mutex, poisoned, bar_data, ext_pc, ext_pos, chunk, normalized_db >>

mainVars == << main_pc, terminal, exit_status, bar_data >>

inputVars == << file, sample_rate, channels, samples >>

extVars == << ext_pc, ext_pos, chunk, normalized_db >>

lockVars == << mutex, poisoned >>

NoChunk == [start |-> 0, len |-> 0]

\* The state when main starts, the file being `input`.
InitWith(input) ==
    /\ file = input
    /\ main_pc = "enable_raw"
    /\ terminal = [raw |-> FALSE, alt |-> FALSE]
    /\ exit_status = "running"
    /\ sample_rate = 0
    /\ channels = 0
    /\ samples = NoSamples
    /\ sink = << >>
    /\ events = << >>
    /\ audio_levels = << >>
    /\ mutex = "none"
    /\ poisoned = FALSE
    /\ bar_data = << >>
    /\ ext_pc = "unspawned"
    /\ ext_pos = 0
    /\ chunk = NoChunk
    /\ normalized_db = Fin(0)

Init == \E input \in Inputs : InitWith(input)

\* The inputs of a few chunks.
ShortInputs == { ShortInput, TinyInput, EmptyInput, SlowInput }

InitShort == \E input \in ShortInputs : InitWith(input)

\* A faulty variant: the extractor is stopped as soon as the render loop has ended.
ProcessAlive_LoopOnly == main_pc \notin { "restore", "exited" }

\* The process runs until main returns or panics.
ProcessAlive == main_pc # "exited"

\* The render loop's states.
LoopPcs == { "draw", "draw_data", "draw_render", "poll", "read", "sink_check" }

Running == main_pc \in LoopPcs

Terminating == main_pc = "restore"

(***************************************************************************)
(* The Mutex around the Level History.                                     *)
(***************************************************************************)
\* A faulty variant: the lock excludes nobody.
CanLock_Always(holder) == TRUE

\* Mutex::lock() returns only while no thread holds the lock.
CanLock(holder) == holder = "none"

(***************************************************************************)
(* The main thread: setup (lines 27-77).                                   *)
(***************************************************************************)
\* Err(..)? in main: main returns the error, the process exits non-zero.
MainReturnsErr ==
    /\ main_pc' = "exited"
    /\ exit_status' = "err"

\* A panic on the main thread ends the process.
MainPanics ==
    /\ main_pc' = "exited"
    /\ exit_status' = "panic"

\* enable_raw_mode()?
EnableRawMode ==
    /\ main_pc = "enable_raw"
    /\ main_pc' = "enter_alt"
    /\ terminal' = [terminal EXCEPT !.raw = TRUE]
    /\ UNCHANGED << exit_status, bar_data, inputVars, sink, events, audio_levels,
                    lockVars, extVars >>

\* execute!(stdout, EnterAlternateScreen, EnableMouseCapture)?
EnterAlternateScreen ==
    /\ main_pc = "enter_alt"
    /\ main_pc' = "terminal_new"
    /\ terminal' = [terminal EXCEPT !.alt = TRUE]
    /\ UNCHANGED << exit_status, bar_data, inputVars, sink, events, audio_levels,
                    lockVars, extVars >>

\* Terminal::new(backend)?
TerminalNew ==
    /\ main_pc = "terminal_new"
    /\ main_pc' = "audio_out"
    /\ UNCHANGED << terminal, exit_status, bar_data, inputVars, sink, events,
                    audio_levels, lockVars, extVars >>

\* OutputStream::try_default()?; Sink::try_new(&stream_handle)?
AudioOut ==
    /\ main_pc = "audio_out"
    /\ main_pc' = "file_open"
    /\ UNCHANGED << terminal, exit_status, bar_data, inputVars, sink, events,
                    audio_levels, lockVars, extVars >>

\* File::open("src/pink.mp3")?
FileOpen ==
    /\ main_pc = "file_open"
    /\ main_pc' = "decode"
    /\ UNCHANGED << terminal, exit_status, bar_data, inputVars, sink, events,
                    audio_levels, lockVars, extVars >>

\* Decoder::new(..)?; sample_rate, channels, samples = Arc::new(source.collect())
Decode ==
    /\ main_pc = "decode"
    /\ sample_rate' = file.rate
    /\ channels' = file.channels
    /\ samples' = file.samples
    /\ main_pc' = "spawn"
    /\ UNCHANGED << file, terminal, exit_status, bar_data, sink, events, audio_levels,
                    lockVars, extVars >>

\* The setup steps that can return an error.
FallibleSetup ==
    { "enable_raw", "enter_alt", "terminal_new", "audio_out", "file_open", "decode" }

\* Any of the setup's `?` takes the error branch.
SetupFails ==
    /\ main_pc \in FallibleSetup
    /\ MainReturnsErr
    /\ UNCHANGED << terminal, bar_data, inputVars, sink, events, audio_levels,
                    lockVars, extVars >>

\* audio_levels = Arc::new(Mutex::new(Vec::new())); thread::spawn(..)
Spawn ==
    /\ main_pc = "spawn"
    /\ main_pc' = "play"
    /\ audio_levels' = << >>
    /\ ext_pc' = "start"
    /\ UNCHANGED << terminal, exit_status, bar_data, inputVars, sink, events,
                    lockVars, ext_pos, chunk, normalized_db >>

\* sink.append(SamplesBuffer::new(channels, sample_rate, samples.to_vec())); sink.play()
Play ==
    /\ main_pc = "play"
    /\ main_pc' = "draw"
    /\ sink' = Append(sink, [channels |-> channels, sample_rate |-> sample_rate,
                             samples |-> samples])
    /\ UNCHANGED << terminal, exit_status, bar_data, inputVars, events, audio_levels,
                    lockVars, extVars >>

(***************************************************************************)
(* The main thread: the render loop (lines 80-121).                        *)
(***************************************************************************)
\* let levels = audio_levels.lock().unwrap()
DrawLock ==
    /\ main_pc = "draw"
    /\ CanLock(mutex)
    /\ IF poisoned
       THEN /\ MainPanics
            /\ UNCHANGED << mutex >>
       ELSE /\ main_pc' = "draw_data"
            /\ mutex' = "main"
            /\ UNCHANGED << exit_status >>
    /\ UNCHANGED << terminal, bar_data, inputVars, sink, events, audio_levels,
                    poisoned, extVars >>

\* let bar_data = levels.iter().enumerate().map(..labels[i]..).collect()
DrawData ==
    /\ main_pc = "draw_data"
    /\ IF Len(audio_levels) > Len(Labels)
       THEN \* labels[i] is out of bounds: the panic poisons the Mutex
            /\ MainPanics
            /\ poisoned' = TRUE
            /\ mutex' = "none"
            /\ UNCHANGED << bar_data >>
       ELSE /\ main_pc' = "draw_render"
            /\ bar_data' = BarData(audio_levels)
            /\ UNCHANGED << exit_status, lockVars >>
    /\ UNCHANGED << terminal, inputVars, sink, events, audio_levels, extVars >>

\* A faulty variant: the draw empties the vector it has shown (levels.clear()).
DrawRender_Clears ==
    /\ main_pc = "draw_render"
    /\ main_pc' = "poll"
    /\ bar_data' = << >>
    /\ mutex' = "none"
    /\ audio_levels' = << >>
    /\ UNCHANGED << terminal, exit_status, inputVars, sink, events, poisoned, extVars >>

\* f.render_widget(barchart, chunks[0]); the closure ends, terminal.draw is Ok
DrawRender ==
    /\ main_pc = "draw_render"
    /\ main_pc' = "poll"
    /\ bar_data' = << >>
    /\ mutex' = "none"
    /\ UNCHANGED << terminal, exit_status, inputVars, sink, events, audio_levels,
                    poisoned, extVars >>

\* terminal.draw(..)? is Err: before the closure is called (resizing the buffers) or
\* after it has run and dropped its guard (flushing the frame)
DrawFails ==
    /\ main_pc \in { "draw", "draw_render" }
    /\ MainReturnsErr
    /\ bar_data' = << >>
    /\ mutex' = IF main_pc = "draw_render" THEN "none" ELSE mutex
    /\ UNCHANGED << terminal, inputVars, sink, events, audio_levels, poisoned, extVars >>

\* event::poll(50 ms)? is Ok(true): an event is waiting
PollReady ==
    /\ main_pc = "poll"
    /\ events # << >>
    /\ main_pc' = "read"
    /\ UNCHANGED << terminal, exit_status, bar_data, inputVars, sink, events,
                    audio_levels, lockVars, extVars >>

\* event::poll(50 ms)? is Ok(false): the 50 ms passed without an event
PollTimeout ==
    /\ main_pc = "poll"
    /\ events = << >>
    /\ main_pc' = "sink_check"
    /\ UNCHANGED << terminal, exit_status, bar_data, inputVars, sink, events,
                    audio_levels, lockVars, extVars >>

\* A faulty variant: any key quits.
IsQuit_AnyKey(e) == e \in { "key_q", "key_other" }

\* The event read is a key event for the character 'q'.
IsQuit(e) == e = "key_q"

\* if let Event::Key(key) = event::read()? { if let KeyCode::Char('q') = key.code { break } }
ReadEvent ==
    /\ main_pc = "read"
    /\ events # << >>
    /\ events' = Tail(events)
    /\ main_pc' = IF IsQuit(Head(events)) THEN "restore" ELSE "sink_check"
    /\ UNCHANGED << terminal, exit_status, bar_data, inputVars, sink, audio_levels,
                    lockVars, extVars >>

\* event::poll(..)? or event::read()? is Err
InputFails ==
    /\ main_pc \in { "poll", "read" }
    /\ MainReturnsErr
    /\ UNCHANGED << terminal, bar_data, inputVars, sink, events, audio_levels,
                    lockVars, extVars >>

\* A faulty variant: the sink never reports empty.
SinkEmpty_Never(q) == FALSE

\* sink.empty()
SinkEmpty(q) == q = << >>

\* if sink.empty() { break }
SinkCheck ==
    /\ main_pc = "sink_check"
    /\ main_pc' = IF SinkEmpty(sink) THEN "restore" ELSE "draw"
    /\ UNCHANGED << terminal, exit_status, bar_data, inputVars, sink, events,
                    audio_levels, lockVars, extVars >>

(***************************************************************************)
(* The main thread: restoring the terminal (lines 124-132).                *)
(***************************************************************************)
\* disable_raw_mode()?; execute!(.., LeaveAlternateScreen, ..)?; show_cursor()?; Ok(())
Restore ==
    /\ main_pc = "restore"
    /\ main_pc' = "exited"
    /\ exit_status' = "ok"
    /\ terminal' = [raw |-> FALSE, alt |-> FALSE]
    /\ UNCHANGED << bar_data, inputVars, sink, events, audio_levels, lockVars, extVars >>

\* One of the three restoring calls is Err: those before it have taken effect.
RestoreFails ==
    /\ main_pc = "restore"
    /\ MainReturnsErr
    /\ \E done \in 0..2 :
          terminal' = [raw |-> terminal.raw /\ done < 1, alt |-> terminal.alt /\ done < 2]
    /\ UNCHANGED << bar_data, inputVars, sink, events, audio_levels, lockVars, extVars >>

(***************************************************************************)
(* The extractor thread (lines 47-67).                                     *)
(***************************************************************************)
\* Chunks::next() from offset pos, then rms, db and normalized_db of the chunk (lines
\* 49-57); None ends the for loop and the thread.
TakeChunk(pos) ==
    IF pos >= samples.len
    THEN /\ ext_pc' = "done"
         /\ UNCHANGED << ext_pos, chunk, normalized_db >>
    ELSE \E c \in { ChunkAt(samples.len, ChunkSize(sample_rate), pos) } :
             /\ ext_pc' = "lock"
             /\ chunk' = c
             /\ ext_pos' = pos + c.len
             /\ normalized_db' = Loudness(samples, c)

\* let chunk_size = sample_rate as usize / 20; samples_clone.chunks(chunk_size)
ExtStart ==
    /\ ProcessAlive
    /\ ext_pc = "start"
    /\ IF ChunkSize(sample_rate) = 0
       THEN \* chunks(0) panics: "chunk size must be non-zero"
            /\ ext_pc' = "panicked"
            /\ UNCHANGED << ext_pos, chunk, normalized_db >>
       ELSE TakeChunk(0)
    /\ UNCHANGED << mainVars, inputVars, sink, events, audio_levels, lockVars >>

\* let mut levels = audio_levels_clone.lock().unwrap()
ExtLock ==
    /\ ProcessAlive
    /\ ext_pc = "lock"
    /\ CanLock(mutex)
    /\ IF poisoned
       THEN /\ ext_pc' = "panicked"
            /\ UNCHANGED << mutex >>
       ELSE /\ ext_pc' = "push"
            /\ mutex' = "extractor"
    /\ UNCHANGED << mainVars, inputVars, sink, events, audio_levels, poisoned,
                    ext_pos, chunk, normalized_db >>

\* A faulty variant: the value is inserted at the front (levels.insert(0, v)).
Push_Front(levels, v) == << v >> \o levels

\* Vec::push
Push(levels, v) == Append(levels, v)

\* levels.push(normalized_db)
ExtPush ==
    /\ ProcessAlive
    /\ ext_pc = "push"
    /\ ext_pc' = "evict"
    /\ audio_levels' = Push(audio_levels, normalized_db)
    /\ UNCHANGED << mainVars, inputVars, sink, events, lockVars, ext_pos, chunk,
                    normalized_db >>

\* A faulty variant: the window test is off by one.
OverWindow_OffByOne(levels) == Len(levels) > WINDOW_SIZE + 1

\* levels.len() > WINDOW_SIZE
OverWindow(levels) == Len(levels) > WINDOW_SIZE

\* A faulty variant: the newest entry is evicted (levels.pop()).
RemoveFirst_Newest(levels) == SubSeq(levels, 1, Len(levels) - 1)

\* levels.remove(0)
RemoveFirst(levels) == Tail(levels)

\* if levels.len() > WINDOW_SIZE { levels.remove(0); }, then thread::sleep begins
ExtEvict ==
    /\ ProcessAlive
    /\ ext_pc = "evict"
    /\ ext_pc' = "sleep"
    /\ audio_levels' = IF OverWindow(audio_levels) THEN RemoveFirst(audio_levels)
                       ELSE audio_levels
    /\ UNCHANGED << mainVars, inputVars, sink, events, lockVars, ext_pos, chunk,
                    normalized_db >>

\* A faulty variant: the guard is leaked, the lock is never released.
Dropped_Leaked(holder) == holder

\* Who holds the Mutex once the guard `levels` has gone out of scope.
Dropped(holder) == "none"

\* thread::sleep(50 ms) returns; the loop body ends, which drops the guard `levels`;
\* the for loop takes the next chunk
ExtWake ==
    /\ ProcessAlive
    /\ ext_pc = "sleep"
    /\ mutex' = Dropped(mutex)
    /\ TakeChunk(ext_pos)
    /\ UNCHANGED << mainVars, inputVars, sink, events, audio_levels, poisoned >>

(***************************************************************************)
(* The environment: the playback driver and the user.                      *)
(***************************************************************************)
\* The sink's source has been played to its end.
PlaybackFinish ==
    /\ ProcessAlive
    /\ sink # << >>
    /\ sink' = Tail(sink)
    /\ UNCHANGED << mainVars, inputVars, events, audio_levels, lockVars, extVars >>

\* The user presses a key or moves the mouse while the render loop runs.
UserInput ==
    /\ Running
    /\ Len(events) < MaxPending
    /\ \E e \in Events : events' = Append(events, e)
    /\ UNCHANGED << mainVars, inputVars, sink, audio_levels, lockVars, extVars >>

(***************************************************************************)
(* The specifications.                                                     *)
(***************************************************************************)
MainStep ==
    \/ EnableRawMode
    \/ EnterAlternateScreen
    \/ TerminalNew
    \/ AudioOut
    \/ FileOpen
    \/ Decode
    \/ Spawn
    \/ Play
    \/ DrawLock
    \/ DrawData
    \/ DrawRender
    \/ PollReady
    \/ PollTimeout
    \/ ReadEvent
    \/ SinkCheck
    \/ Restore

MainFails ==
    \/ SetupFails
    \/ DrawFails
    \/ InputFails
    \/ RestoreFails

ExtStep ==
    \/ ExtStart
    \/ ExtLock
    \/ ExtPush
    \/ ExtEvict
    \/ ExtWake

Next ==
    \/ MainStep
    \/ MainFails
    \/ ExtStep
    \/ PlaybackFinish
    \/ UserInput

Spec == Init /\ [][Next]_vars

\* Every thread that can run does run, sleeps and polls end, and the audio plays out.
Fairness ==
    /\ WF_vars(MainStep)
    /\ WF_vars(ExtStep)
    /\ WF_vars(PlaybackFinish)

\* The steps of a run in which no terminal or audio call returns an error.
NextNoFault ==
    \/ MainStep
    \/ ExtStep
    \/ PlaybackFinish
    \/ UserInput

\* Fair runs without I/O errors, on the inputs of a few chunks.
FairSpec == InitShort /\ [][NextNoFault]_vars /\ Fairness

(***************************************************************************)
(* What the claims speak of.                                               *)
(***************************************************************************)
CurrentInput == [rate |-> sample_rate, channels |-> channels, samples |-> samples]

\* The chunks of an input, in stream order: chunk k (from 1) starts at (k-1) * chunk_size.
ChunksOf(inp) ==
    LET cs == ChunkSize(inp.rate)
        n == inp.samples.len
    IN  IF cs = 0 THEN << >>
        ELSE [k \in 1..NumChunks(n, cs) |-> ChunkAt(n, cs, (k - 1) * cs)]

\* The loudness values of each input, in chunk order.
EmittedOf ==
    [inp \in Inputs |->
        [k \in 1..Len(ChunksOf(inp)) |-> Loudness(inp.samples, ChunksOf(inp)[k])]]

\* The loudness values of the decoded stream, in chunk order.
Emitted == IF CurrentInput \in Inputs THEN EmittedOf[CurrentInput] ELSE << >>

\* The chunks the extractor's for loop has taken from the iterator.
Taken ==
    IF ChunkSize(sample_rate) = 0 THEN 0
    ELSE NumChunks(ext_pos, ChunkSize(sample_rate))

\* The appends (push and eviction) the extractor has completed.
AppendsDone == IF ext_pc \in { "lock", "push", "evict" } THEN Taken - 1 ELSE Taken

\* The last min(k, WINDOW_SIZE) of the first k emitted values, oldest first.
LastEmitted(k) == SubSeq(Emitted, Max(1, k - WINDOW_SIZE + 1), k)

\* The draw closure holds the guard `levels`: it is reading the Level History.
Drawing == main_pc \in { "draw_data", "draw_render" }

Range(q) == { q[i] : i \in 1..Len(q) }

\* The extractor is in the body of its for loop, with a chunk in hand.
InBody == ext_pc \in { "lock", "push", "evict", "sleep" }

\* An f32 that is a finite number in [0.0, 1.0].
InUnitInterval(x) == x.k = "fin" /\ 0 <= x.v /\ x.v <= One

\* The set of sample values in the chunk c of the stream s.
ChunkSamples(s, c) ==
    { s.period[j + 1] : j \in { j \in 0..(Len(s.period) - 1) : CountIn(c, Len(s.period), j) > 0 } }

\* The terminal as it was before main: raw mode off, main screen.
TerminalRestored == terminal = [raw |-> FALSE, alt |-> FALSE]

\* The extractor thread's control flow: spawn, chunks(), then per chunk lock, push,
\* eviction and sleep; the loop ends on the iterator's None; a panic ends the thread.
ExtTransitions ==
    { << "unspawned", "start" >>, << "start", "lock" >>, << "start", "done" >>,
      << "start", "panicked" >>, << "lock", "push" >>, << "lock", "panicked" >>,
      << "push", "evict" >>, << "evict", "sleep" >>, << "sleep", "lock" >>,
      << "sleep", "done" >> }

\* The extractor thread has ended: its closure returned, or it panicked.
ExtEnded == ext_pc \in { "done", "panicked" }

\* The decoded stream has samples, but fewer than one chunk's length.
ShorterThanOneChunk == 0 < samples.len /\ samples.len < ChunkSize(sample_rate)


(***************************************************************************)
(* The claims.                                                             *)
(***************************************************************************)
\* C1: whenever no append is half done (the extractor is not between its push and its
\* eviction, under the lock), the Level History holds at most WINDOW_SIZE entries,
\* after any number of appends and draws; so does every bar_data a draw builds.
C1_LevelHistoryBounded ==
    /\ ext_pc # "evict" => Len(audio_levels) <= WINDOW_SIZE
    /\ Len(bar_data) <= WINDOW_SIZE

\* C1 witness: more than WINDOW_SIZE appends are done and a draw has read a full window.
C1_Witness ==
    /\ AppendsDone > WINDOW_SIZE
    /\ Len(audio_levels) = WINDOW_SIZE
    /\ Len(bar_data) = WINDOW_SIZE

\* C2: after k completed appends the Level History is the last min(k, WINDOW_SIZE)
\* emitted loudness values, oldest first, in chunk order; between the push and the
\* eviction of append k+1 it is that sequence with the value k+1 at its end, so each
\* append evicts at most one entry, the oldest.
C2_HistoryIsLastEmitted ==
    CurrentInput \in Inputs =>
        audio_levels =
            IF ext_pc = "evict"
            THEN Append(LastEmitted(AppendsDone), Emitted[AppendsDone + 1])
            ELSE LastEmitted(AppendsDone)

\* C2 witness: an append that had to evict has completed.
C2_Witness ==
    /\ ext_pc = "sleep"
    /\ AppendsDone = WINDOW_SIZE + 2
    /\ audio_levels[1] # audio_levels[2]

\* C3: whatever the draw closure reads under the lock is the Level History before or
\* after a whole append, never the vector between a push and its eviction, and it
\* does not change while the closure reads it.
C3_SnapshotsSeeWholeAppends ==
    (Drawing /\ CurrentInput \in Inputs) =>
        /\ \E k \in { Taken - 1, Taken } :
              k >= 0 /\ audio_levels = LastEmitted(k)
        /\ Len(audio_levels) <= WINDOW_SIZE
        /\ main_pc = "draw_render" => Len(bar_data) = Len(audio_levels)

\* C3 witness: a draw has read a full window while the extractor waits for the lock
\* with an append that will evict.
C3_Witness ==
    /\ main_pc = "draw_render"
    /\ ext_pc = "lock"
    /\ Taken > WINDOW_SIZE
    /\ Len(bar_data) = WINDOW_SIZE

\* C4 as claimed: what the draw closure reads is a prefix of the emitted values.
C4_SnapshotIsPrefix ==
    (Drawing /\ CurrentInput \in Inputs) =>
        /\ Len(audio_levels) <= Len(Emitted)
        /\ audio_levels = SubSeq(Emitted, 1, Len(audio_levels))

\* C4 amended: what the draw closure reads is a run of consecutive emitted values in
\* chunk order: it starts at the first emitted value while at most WINDOW_SIZE chunks
\* have been taken, and later after at most (chunks taken - WINDOW_SIZE) evicted ones.
C4_SnapshotIsWindow ==
    (Drawing /\ CurrentInput \in Inputs) =>
        \E o \in 0..Max(0, Taken - WINDOW_SIZE) :
            /\ o + Len(audio_levels) <= Len(Emitted)
            /\ audio_levels = SubSeq(Emitted, o + 1, o + Len(audio_levels))

\* C4 witness: a draw reads a full window that is no longer the first WINDOW_SIZE
\* emitted values.
C4_Witness ==
    /\ Drawing
    /\ Len(audio_levels) = WINDOW_SIZE
    /\ audio_levels # SubSeq(Emitted, 1, WINDOW_SIZE)

\* C5 as claimed: the extractor does not hold the lock while it sleeps, and a draw that
\* starts while the extractor sleeps finds the lock free.
C5_LockFreeDuringSleep ==
    ext_pc = "sleep" =>
        /\ mutex # "extractor"
        /\ main_pc = "draw" => CanLock(mutex)

\* The render loop waits in audio_levels.lock().
MainWaits == main_pc = "draw"

\* The extractor waits in audio_levels_clone.lock().
ExtWaits == ext_pc = "lock"

\* Both threads wait for a lock that is held.
BothBlocked == MainWaits /\ ExtWaits /\ ~CanLock(mutex)

\* C6 as claimed: the threads never both wait for a held lock, and in fair runs every
\* lock request of the draw phase and of the extractor is granted.
C6_LocksGranted ==
    /\ []~BothBlocked
    /\ MainWaits ~> (main_pc = "draw_data")
    /\ ExtWaits ~> (ext_pc = "push")

\* C6 amended: the threads never both wait for a held lock; in fair runs every lock
\* request of the draw phase is granted, and every lock request of the extractor is
\* granted unless the process exits first.
C6_LocksGrantedWhileAlive ==
    /\ []~BothBlocked
    /\ MainWaits ~> (main_pc = "draw_data")
    /\ ExtWaits ~> (ext_pc = "push" \/ ~ProcessAlive)

\* C6 witness: the draw phase waits for the lock while the extractor holds it.
C6_Witness ==
    /\ MainWaits
    /\ mutex = "extractor"
    /\ ext_pc = "sleep"

\* C7: the render loop is entered in Running from the setup; it becomes Terminating
\* only from Running, on reading a 'q' key event or on finding the sink empty; once
\* Terminating the main thread only goes on to exit: it never takes the lock, builds
\* bar_data or reads an event again; and an exited process stays exited.
C7_RenderLoopStateMachine ==
    [][ /\ (~Running /\ Running') => (main_pc = "play" /\ main_pc' = "draw")
        /\ (~Terminating /\ Terminating') =>
              \/ main_pc = "read" /\ events # << >> /\ Head(events) = "key_q"
              \/ main_pc = "sink_check" /\ sink = << >>
        /\ Terminating =>
              /\ main_pc' \in { "restore", "exited" }
              /\ mutex' # "main"
              /\ bar_data' = << >>
              /\ Len(events') >= Len(events)
        /\ main_pc = "exited" => main_pc' = "exited"
      ]_vars

\* C7 witness: the loop is Terminating while the audio still plays: 'q' was read.
C7_Witness ==
    /\ Terminating
    /\ sink # << >>

\* C8 as claimed: when an input phase ends without quitting although a 'q' key event
\* is pending, the very next event to be read is that 'q': the loop quits within one
\* further iteration, whatever else is pending.
C8_QuitWithinOneIteration ==
    [][ (main_pc = "read" /\ "key_q" \in Range(events) /\ main_pc' = "sink_check")
            => Head(events') = "key_q"
      ]_vars

\* C9: in fair runs, once the sink is empty while the render loop runs, the loop
\* reaches Terminating.
C9_PlaybackEndTerminates == (Running /\ sink = << >>) ~> Terminating

\* C9 witness: the loop is Terminating with the sink empty, no 'q' pending, and the
\* extractor in the middle of the stream.
C9_Witness ==
    /\ Terminating
    /\ sink = << >>
    /\ "key_q" \notin Range(events)
    /\ ext_pc = "sleep"
    /\ ext_pos < samples.len

\* C10: for 5 seconds of mono silence at 44100 Hz every chunk has 2205 samples and
\* loudness 0.0, the Level History holds one zero per push (nothing is evicted), and
\* once the extractor has finished it has taken exactly 100 chunks and the Level
\* History is WINDOW_SIZE zeros, in every later state.
C10_SilentStream ==
    CurrentInput = SilentInput =>
        /\ chunk \in { NoChunk, ChunkAt(220500, 2205, chunk.start) }
        /\ normalized_db = Fin(0)
        /\ \A i \in 1..Len(audio_levels) : audio_levels[i] = Fin(0)
        /\ Len(audio_levels) = IF ext_pc = "evict" THEN AppendsDone + 1 ELSE AppendsDone
        /\ ext_pc = "done" => (Taken = 100 /\ Len(audio_levels) = WINDOW_SIZE)

\* C10 witness: the extractor has finished the silent stream.
C10_Witness ==
    /\ CurrentInput = SilentInput
    /\ ext_pc = "done"
    /\ Len(audio_levels) = WINDOW_SIZE

\* C11: every chunk the extractor's loop body works on has at least one sample, at most
\* chunk_size samples, and lies inside the stream, so the mean of squares is never 0/0;
\* an empty stream gives no chunk at all; a stream shorter than one chunk gives the
\* single chunk of all its samples, and the step after that chunk's sleep ends the thread.
C11_NoZeroLengthChunk ==
    /\ [](InBody =>
            /\ chunk.len >= 1
            /\ chunk.len <= ChunkSize(sample_rate)
            /\ chunk.start + chunk.len <= samples.len
            /\ Rms(samples, chunk).k = "fin")
    /\ []((samples.len = 0 /\ ext_pc \notin { "unspawned", "start" }) =>
            (ext_pc = "done" /\ chunk = NoChunk))
    /\ []((ShorterThanOneChunk /\ InBody) => chunk = [start |-> 0, len |-> samples.len])
    /\ [][ (ShorterThanOneChunk /\ ext_pc = "sleep" /\ ext_pc' # "sleep")
              => ext_pc' = "done" ]_vars

\* C11 witness: the extractor has finished a stream shorter than one chunk, after one
\* append for its single short chunk.
C11_Witness ==
    /\ ShorterThanOneChunk
    /\ ext_pc = "done"
    /\ chunk = [start |-> 0, len |-> samples.len]
    /\ Len(audio_levels) = 1

\* C12 as claimed: for every positive sample rate the extractor does not crash, and the
\* chunks it takes are contiguous and in order: chunk k (from 1) starts where chunk k-1
\* ended, at (k-1) * chunk_size, has chunk_size samples or, the last one, those that
\* remain, and the loop ends only when the whole stream has been taken.
C12_ChunkingForEveryRate ==
    (sample_rate > 0 /\ ext_pc # "unspawned") =>
        /\ ext_pc # "panicked"
        /\ InBody =>
              /\ chunk.start = (Taken - 1) * ChunkSize(sample_rate)
              /\ chunk.len = Min(ChunkSize(sample_rate), samples.len - chunk.start)
              /\ ext_pos = chunk.start + chunk.len
        /\ ext_pc = "done" => ext_pos = samples.len

\* C13: every value in the Level History, and the value the extractor is about to push,
\* is a finite number in [0.0, 1.0]: neither NaN nor an infinity is ever stored,
\* whatever the chunk holds (zeros, i16::MAX, i16::MIN, anything between).
C13_LevelsInUnitInterval ==
    /\ \A i \in 1..Len(audio_levels) : InUnitInterval(audio_levels[i])
    /\ InBody => InUnitInterval(normalized_db)

\* C13 witness: the loudness of a chunk of i16::MIN has just been appended to a Level
\* History that also holds the loudness of a silent chunk and of a faint one.
C13_Witness ==
    /\ ext_pc = "sleep"
    /\ ChunkSamples(samples, chunk) = { -32768 }
    /\ audio_levels[Len(audio_levels)] = Fin(One)
    /\ Fin(0) \in Range(audio_levels)
    /\ \E i \in 1..Len(audio_levels) : audio_levels[i].v \notin { 0, One }

\* C14: a chunk of zeros has normalized loudness exactly 0.0, and a chunk whose samples
\* are all i16::MAX or i16::MIN has exactly 1.0; these are the values appended for them.
C14_CalibratedAtBothEnds ==
    InBody =>
        /\ ChunkSamples(samples, chunk) = { 0 } => normalized_db = Fin(0)
        /\ ChunkSamples(samples, chunk) \subseteq { I16_MAX, -32768 } => normalized_db = Fin(One)
        /\ ext_pc = "sleep" => audio_levels[Len(audio_levels)] = normalized_db

\* C14 witness: a chunk holding i16::MAX and i16::MIN has been appended as 1.0 and the
\* chunk of zeros after it as 0.0.
C14_Witness ==
    /\ ext_pc = "sleep"
    /\ chunk.len > 1
    /\ ChunkSamples(samples, chunk) = { 0 }
    /\ ChunkSamples(samples, ChunkAt(samples.len, chunk.len, 0)) = { I16_MAX, -32768 }
    /\ audio_levels = << Fin(One), Fin(0) >>

\* C15 as claimed: when main returns an error from a step of the setup or of the render
\* loop taken with raw mode on, the process exits with the terminal restored: raw mode
\* off and the alternate screen left.
C15_RestoredOnErrorPaths ==
    [][ (terminal.raw /\ main_pc # "restore" /\ main_pc' = "exited" /\ exit_status' = "err")
            => TerminalRestored' ]_vars

\* C16 as claimed: in the bar_data a draw builds, the bar at position i (from 0) has the
\* decimal string of i as its label and round(v * 100) as its height, v being the i-th
\* value of the Level History the closure reads.
C16_BarsLabelledAndRounded ==
    main_pc = "draw_render" =>
        /\ Len(bar_data) = Len(audio_levels)
        /\ \A i \in 1..Len(bar_data) :
              LET hundredths == audio_levels[i].v * 100
              IN  /\ bar_data[i].label = ToString10(i - 1)
                  /\ bar_data[i].value = (hundredths + (One \div 2)) \div One

\* C17 as claimed: the extractor follows its loop (one lock, one push, one eviction test
\* and one sleep per chunk taken); the chunks are taken in stream order; the push appends
\* the loudness of the chunk in hand and nothing else makes the Level History longer; a
\* finished extractor has taken the whole stream; an ended extractor is never started
\* again and the Level History never changes after it; and in fair runs the extractor,
\* once spawned, eventually finishes.
C17_ExtractorFinishes ==
    /\ [][ /\ ext_pc' # ext_pc => << ext_pc, ext_pc' >> \in ExtTransitions
           /\ ext_pos' # ext_pos =>
                 /\ ext_pc' = "lock"
                 /\ chunk' = ChunkAt(samples.len, ChunkSize(sample_rate), ext_pos)
                 /\ ext_pos' = ext_pos + chunk'.len
           /\ (ext_pc = "push" /\ ext_pc' = "evict") =>
                 audio_levels' = Append(audio_levels, Loudness(samples, chunk))
           /\ Len(audio_levels') > Len(audio_levels) =>
                 (ext_pc = "push" /\ ext_pc' = "evict")
           /\ ext_pc' = "done" => ext_pos' = samples.len
           /\ ExtEnded => (ext_pc' = ext_pc /\ audio_levels' = audio_levels)
         ]_vars
    /\ (ext_pc = "start") ~> (ext_pc = "done")

\* C18 as claimed: in fair runs, when the render loop is Terminating while the extractor
\* is in its loop with samples still to take, the extractor goes on to finish the stream.
C18_RunsOnToExhaustion ==
    (Terminating /\ InBody /\ ext_pos < samples.len) ~> (ext_pc = "done")

\* C18 amended: no step of the render loop, the one that makes it Terminating and those
\* after it included, changes the extractor's state; while the render loop is
\* Terminating an extractor that has not ended can take its next step; once the process
\* has exited, the extractor and the Level History stay as they are.
C18_NoCancellationWhileAlive ==
    /\ [][ ((Running \/ Terminating) /\ main_pc' # main_pc) => UNCHANGED extVars ]_vars
    /\ []((Terminating /\ ext_pc # "unspawned" /\ ~ExtEnded) => ENABLED ExtStep)
    /\ [][ ~ProcessAlive => UNCHANGED << extVars, audio_levels >> ]_vars

\* C18 witness: the render loop is Terminating on a 'q' while the audio still plays and
\* the extractor, holding the lock, is about to push with samples left to take.
C18_Witness ==
    /\ Terminating
    /\ sink # << >>
    /\ ext_pc = "push"
    /\ ext_pos < samples.len

\* C19: the Level History is changed only by the extractor's push and eviction steps,
\* never by a step of the main thread (setup, draw, poll, read, completion check,
\* restoring), of the playback or of the user; and once decoded, the Sample Stream, the
\* sample rate and the channel count are changed by no step at all.
C19_SoleWriter ==
    [][ /\ audio_levels' # audio_levels =>
              /\ ext_pc \in { "push", "evict" }
              /\ ext_pc' # ext_pc
              /\ UNCHANGED << main_pc, bar_data, sink, events >>
        /\ main_pc' # main_pc => audio_levels' = audio_levels
        /\ main_pc \notin FallibleSetup => UNCHANGED << samples, sample_rate, channels >>
      ]_vars

\* C19 witness: the render loop has drawn, polled, checked the sink and become
\* Terminating, the audio has played out and the extractor has finished, and the Level
\* History holds what the extractor appended.
C19_Witness ==
    /\ Terminating
    /\ sink = << >>
    /\ ext_pc = "done"
    /\ samples.len > 0
    /\ CurrentInput \in Inputs
    /\ audio_levels = Emitted

\* C20: whenever the draw closure holds the lock, every position of the Level History
\* has a label (its length is at most the number of labels), and the bars carry those
\* labels; no thread panics while it holds the lock: the main thread never panics, the
\* extractor panics only in chunks(0), which is before its first lock; and the Mutex is
\* never poisoned.
C20_LabelsInBounds ==
    /\ Drawing => Len(audio_levels) <= Len(Labels)
    /\ \A i \in 1..Len(bar_data) : i <= Len(Labels) /\ bar_data[i].label = Labels[i]
    /\ exit_status # "panic"
    /\ ext_pc = "panicked" => (ChunkSize(sample_rate) = 0 /\ ext_pos = 0 /\ mutex # "extractor")
    /\ ~poisoned

\* C20 witness: a draw has built the bars of a full window, the last one labelled 99,
\* after the extractor has evicted.
C20_Witness ==
    /\ main_pc = "draw_render"
    /\ Len(bar_data) = Len(Labels)
    /\ bar_data[WINDOW_SIZE].label = << "9", "9" >>
    /\ AppendsDone > WINDOW_SIZE
    /\ ~poisoned

====
